---- MODULE Spec2Model ----
(***************************************************************************)
(* Model of the Formspree webhook handler (netlify/functions/webhook.js): *)
(* verification handshake, payload normalisation, phone normalisation,    *)
(* mapping-table lookup and the four-channel notification fan-out.        *)
(*                                                                         *)
(* Encoding of JavaScript values.  A JS string is a sequence of text      *)
(* atoms: one character each wherever the code inspects characters (phone *)
(* numbers, property names, the mapping file); a fixed text the code only *)
(* copies is a single atom.  A JSON value is a record [t, s, o]: t is the *)
(* type tag, s the text of a string or number, o the list of [k, v]       *)
(* members of an object or array, in insertion order.                     *)
(***************************************************************************)
EXTENDS Integers, Sequences, FiniteSets, TLC

VARIABLES
    phoneIn,      \* argument handed to formatPhoneNumber
    phoneOut,     \* value it returned
    phoneDone     \* whether formatPhoneNumber has been applied

phoneVars == <<phoneIn, phoneOut, phoneDone>>

VARIABLES
    fmtIn,        \* field map handed to formatFormDataMessage
    fmtOut,       \* text it returned
    fmtDone       \* whether formatFormDataMessage has been applied

fmtVars == <<fmtIn, fmtOut, fmtDone>>

VARIABLES
    mapTable,     \* lines of the webnumber_map file, each a list of fields
    mapKey,       \* websiteUrl handed to getPhoneForWebsite
    mapOut,       \* value it returned
    mapDone       \* whether getPhoneForWebsite has been applied

mapVars == <<mapTable, mapKey, mapOut, mapDone>>

VARIABLES
    logStorage,   \* logStorage of logs.js: the stored entries, newest first
    logCount,     \* number of entries addLog has been given since the start
    logReply      \* what the logs handler returned last

logVars == <<logStorage, logCount, logReply>>

pureVars == <<phoneVars, fmtVars, mapVars, logVars>>

----------------------------------------------------------------------------
(* JavaScript values *)

Str(s)    == [t |-> "string", s |-> s, o |-> <<>>]
Num(s)    == [t |-> "number", s |-> s, o |-> <<>>]
Obj(ms)   == [t |-> "object", s |-> <<>>, o |-> ms]
Arr(ms)   == [t |-> "array", s |-> <<>>, o |-> ms]
Null      == [t |-> "null", s |-> <<>>, o |-> <<>>]
Undefined == [t |-> "undefined", s |-> <<>>, o |-> <<>>]
Thrown    == [t |-> "throw", s |-> <<>>, o |-> <<>>]
M(k, v)   == [k |-> k, v |-> v]

\* ToBoolean: the test behind if (x), !x, a || b, a && b
Truthy(v) ==
    CASE v.t = "string" -> v.s # <<>>
      [] v.t = "number" -> v.s # <<"0">>
      [] v.t = "boolean" -> v.s = <<"true">>
      [] v.t \in {"object", "array"} -> TRUE
      [] OTHER -> FALSE

\* String.prototype.startsWith for a one-character prefix
StartsWith(s, c) == Len(s) > 0 /\ s[1] = c

Digits == {"0", "1", "2", "3", "4", "5", "6", "7", "8", "9"}

----------------------------------------------------------------------------
(* formatPhoneNumber *)

\* phone.replace(/[\s\-]/g, ''): every space and dash is removed
RECURSIVE RemoveSeparators(_)
RemoveSeparators(s) ==
    IF s = <<>> THEN <<>>
    ELSE IF Head(s) \in {" ", "-"} THEN RemoveSeparators(Tail(s))
    ELSE <<Head(s)>> \o RemoveSeparators(Tail(s))

\* cleaned.replace(/^44/, ''): one leading "44" is removed
StripLeading44_keep(s) == s

StripLeading44(s) ==
    IF Len(s) >= 2 /\ s[1] = "4" /\ s[2] = "4" THEN SubSeq(s, 3, Len(s)) ELSE s

formatPhoneNumber_cleanOnly(phone) ==
    IF ~Truthy(phone) THEN Null
    ELSE IF phone.t # "string" THEN Thrown
    ELSE Str(RemoveSeparators(phone.s))

formatPhoneNumber_prefixAll(phone) ==
    IF ~Truthy(phone) THEN Null
    ELSE IF phone.t # "string" THEN Thrown
    ELSE LET cleaned == RemoveSeparators(phone.s) IN
         IF StartsWith(cleaned, "0")
         THEN Str(<<"+", "4", "4">> \o SubSeq(cleaned, 2, Len(cleaned)))
         ELSE Str(<<"+", "4", "4">> \o StripLeading44(cleaned))

formatPhoneNumber(phone) ==
    IF ~Truthy(phone) THEN Null
    ELSE IF phone.t # "string" THEN Thrown  \* phone.replace is not a function
    ELSE LET cleaned == RemoveSeparators(phone.s) IN
         IF StartsWith(cleaned, "0")
         THEN Str(<<"+", "4", "4">> \o SubSeq(cleaned, 2, Len(cleaned)))
         ELSE IF ~StartsWith(cleaned, "+")
         THEN Str(<<"+", "4", "4">> \o StripLeading44(cleaned))
         ELSE Str(cleaned)

----------------------------------------------------------------------------
(* Property access, operators and conversions of JavaScript *)

True  == [t |-> "boolean", s |-> <<"true">>, o |-> <<>>]
False == [t |-> "boolean", s |-> <<"false">>, o |-> <<>>]
Bool(b) == IF b THEN True ELSE False

\* a || b and a && b return one of their operands; !a returns a boolean
Or(a, b)  == IF Truthy(a) THEN a ELSE b
And(a, b) == IF Truthy(a) THEN b ELSE a
Not(a)    == Bool(~Truthy(a))

\* typeof v === 'object'
TypeofObject(v) == v.t \in {"object", "array", "null"}

\* v[k] on a parsed JSON value: the member named k, undefined when there is none
Get(v, k) ==
    IF \E i \in 1..Len(v.o) : v.o[i].k = k
    THEN v.o[CHOOSE i \in 1..Len(v.o) : v.o[i].k = k].v
    ELSE Undefined

\* Object.keys(v)
IndexKeys == << <<"0">>, <<"1">>, <<"2">>, <<"3">> >>
ObjectKeys(v) ==
    CASE v.t \in {"object", "array"} -> [i \in 1..Len(v.o) |-> v.o[i].k]
      [] v.t = "string" -> SubSeq(IndexKeys, 1, Len(v.s))
      [] OTHER -> <<>>

\* String(v) / template-literal interpolation of a parsed JSON value
RECURSIVE StringOf(_)
RECURSIVE JoinStrings(_, _)
JoinStrings(ss, sep) ==
    IF ss = <<>> THEN <<>>
    ELSE IF Len(ss) = 1 THEN ss[1]
    ELSE ss[1] \o sep \o JoinStrings(Tail(ss), sep)
StringOf(v) ==
    CASE v.t \in {"string", "number", "boolean"} -> v.s
      [] v.t = "null" -> <<"null">>
      [] v.t = "undefined" -> <<"undefined">>
      [] v.t = "object" -> <<"[object Object]">>
      [] v.t = "array" ->
           JoinStrings([i \in 1..Len(v.o) |->
                          IF v.o[i].v.t \in {"null", "undefined"} THEN <<>>
                          ELSE StringOf(v.o[i].v)], <<",">>)
      [] OTHER -> <<>>

kToString == <<"t", "o", "S", "t", "r", "i", "n", "g">>

\* String(v) throws a TypeError: v is an object whose own toString is not
\* callable (nothing parsed from JSON is), or an array holding such an object
RECURSIVE Unprintable(_)
Unprintable(v) ==
    \/ v.t = "object" /\ \E i \in 1..Len(v.o) : v.o[i].k = kToString
    \/ v.t = "array" /\ \E i \in 1..Len(v.o) : Unprintable(v.o[i].v)

\* c.toUpperCase() for one character
UpperCase(c) ==
    CASE c = "a" -> "A"
      [] c = "b" -> "B"
      [] c = "c" -> "C"
      [] c = "d" -> "D"
      [] c = "e" -> "E"
      [] c = "f" -> "F"
      [] c = "g" -> "G"
      [] c = "h" -> "H"
      [] c = "i" -> "I"
      [] c = "j" -> "J"
      [] c = "k" -> "K"
      [] c = "l" -> "L"
      [] c = "m" -> "M"
      [] c = "n" -> "N"
      [] c = "o" -> "O"
      [] c = "p" -> "P"
      [] c = "q" -> "Q"
      [] c = "r" -> "R"
      [] c = "s" -> "S"
      [] c = "t" -> "T"
      [] c = "u" -> "U"
      [] c = "v" -> "V"
      [] c = "w" -> "W"
      [] c = "x" -> "X"
      [] c = "y" -> "Y"
      [] c = "z" -> "Z"
      [] OTHER -> c

----------------------------------------------------------------------------
(* Property names the handler reads *)

kName       == <<"n", "a", "m", "e">>
kFirstName  == <<"f", "i", "r", "s", "t", "N", "a", "m", "e">>
kLastName   == <<"l", "a", "s", "t", "N", "a", "m", "e">>
kEmail      == <<"e", "m", "a", "i", "l">>
kPhone      == <<"p", "h", "o", "n", "e">>
kService    == <<"s", "e", "r", "v", "i", "c", "e">>
kMessage    == <<"m", "e", "s", "s", "a", "g", "e">>
kWebsiteUrl == <<"w", "e", "b", "s", "i", "t", "e", "U", "r", "l">>
kWebsite    == <<"w", "e", "b", "s", "i", "t", "e">>
kSiteUrl    == <<"s", "i", "t", "e", "U", "r", "l">>
kSubmission == <<"s", "u", "b", "m", "i", "s", "s", "i", "o", "n">>
kData       == <<"d", "a", "t", "a">>
kPayload    == <<"p", "a", "y", "l", "o", "a", "d">>
kSkipped    == <<"s", "k", "i", "p", "p", "e", "d">>
kSuccess    == <<"s", "u", "c", "c", "e", "s", "s">>

----------------------------------------------------------------------------
(* loadWebsiteNumberMap / getPhoneForWebsite *)

Whitespace == {" ", "\t", "\r", "\n"}

\* String.prototype.split for a one-character separator: the pieces between
\* consecutive separators, the start and the end of s
Split(s, sep) ==
    LET at == {i \in 1..Len(s) : s[i] = sep}
        n  == Cardinality(at)
        Pos(k) == IF k = 0 THEN 0
                  ELSE IF k = n + 1 THEN Len(s) + 1
                  ELSE CHOOSE i \in at : Cardinality({j \in at : j < i}) = k - 1
    IN [k \in 1..(n + 1) |-> SubSeq(s, Pos(k - 1) + 1, Pos(k) - 1)]

\* String.prototype.trim: from the first to the last character that is not
\* whitespace
Trim(s) ==
    LET kept == {i \in 1..Len(s) : s[i] \notin Whitespace}
    IN IF kept = {} THEN <<>>
       ELSE SubSeq(s, CHOOSE i \in kept : \A j \in kept : i <= j,
                      CHOOSE i \in kept : \A j \in kept : j <= i)

\* the rows kept by the forEach of loadWebsiteNumberMap, in file order; a
\* value bound by const is computed once: v \in {e} binds it
MappingRows(content) ==
    LET lines     == SelectSeq(Split(content, "\n"), LAMBDA line : Trim(line) # <<>>)
        dataLines == Tail(lines)
        Parts(line) == CHOOSE parts \in {[i \in 1..Len(raw) |-> Trim(raw[i])] :
                                           raw \in {Split(line, ",")}} : TRUE
        Kept(line) == /\ Len(Parts(line)) >= 3
                      /\ Parts(line)[1] # <<>>
                      /\ Parts(line)[2] # <<>>
        Entry(line) == [websiteUrl   |-> Parts(line)[1],
                        clientNumber |-> Str(Parts(line)[2]),
                        twilioNumber |-> Or(Str(Parts(line)[3]), Null)]
    IN IF lines = <<>> THEN <<>>
       ELSE CHOOSE rows \in {[i \in 1..Len(kept) |-> Entry(kept[i])] :
                               kept \in {SelectSeq(dataLines, Kept)}} : TRUE

loadWebsiteNumberMap_ignoresFailure(file) == MappingRows(file.content)

loadWebsiteNumberMap_cached(file) ==
    MappingRows(<<"h", "\n", "x", ",", "0", "7", ",">>)

\* file is [readable, content]; a failed read is caught and gives {}
loadWebsiteNumberMap(file) ==
    IF file.readable THEN MappingRows(file.content) ELSE <<>>

getPhoneForWebsite_firstRow(file, websiteUrl) ==
    CHOOSE found \in
      { LET key  == StringOf(websiteUrl)
            hits == {i \in 1..Len(mapping) : mapping[i].websiteUrl = key}
        IN IF hits = {} THEN Null
           ELSE LET first == CHOOSE i \in hits : \A j \in hits : i <= j
                IN Obj(<< M(<<"clientNumber">>, mapping[first].clientNumber),
                          M(<<"twilioNumber">>, mapping[first].twilioNumber) >>) :
        mapping \in {loadWebsiteNumberMap(file)} } : TRUE

\* mapping[websiteUrl] || null; a later row with the same key overwrote the
\* earlier one when the object was built
getPhoneForWebsite(file, websiteUrl) ==
    CHOOSE found \in
      { LET key  == StringOf(websiteUrl)
            hits == {i \in 1..Len(mapping) : mapping[i].websiteUrl = key}
        IN IF hits = {} THEN Null
           ELSE LET last == CHOOSE i \in hits : \A j \in hits : j <= i
                IN Obj(<< M(<<"clientNumber">>, mapping[last].clientNumber),
                          M(<<"twilioNumber">>, mapping[last].twilioNumber) >>) :
        mapping \in {loadWebsiteNumberMap(file)} } : TRUE

----------------------------------------------------------------------------
(* formatFormDataMessage *)

\* the header pushed at line 155 (a memo emoji and this text)
HeaderLine == <<"New Form Submission">>

RecognizedKeys ==
    {kName, kFirstName, kLastName, kEmail, kPhone, kService, kMessage, kWebsiteUrl}

Capitalized_asIs(key) == key

Capitalized(key) ==
    IF key = <<>> THEN key ELSE <<UpperCase(key[1])>> \o Tail(key)

Line(label, v) == label \o <<":", " ">> \o StringOf(v)

FormatThrows_never(formData) == FALSE

\* formatFormDataMessage throws: one of the values it interpolates cannot be
\* converted to a string
FormatThrows(formData) ==
    LET Field(k) == Get(formData, k)
        Bad(k)   == Truthy(Field(k)) /\ Unprintable(Field(k))
        keys     == ObjectKeys(formData)
    IN /\ formData.t \in {"object", "array"}
       /\ \/ Bad(kName)
          \/ ~Truthy(Field(kName)) /\ (Bad(kFirstName) \/ Bad(kLastName))
          \/ \E k \in {kEmail, kPhone, kService, kMessage, kWebsiteUrl} : Bad(k)
          \/ \E i \in 1..Len(keys) :
                /\ ~StartsWith(keys[i], "_") /\ keys[i] \notin RecognizedKeys
                /\ Unprintable(Field(keys[i]))

formatFormDataMessage_phoneFirst(formData) ==
    LET Field(k) == Get(formData, k)
        nameParts == SelectSeq(<<Field(kFirstName), Field(kLastName)>>, Truthy)
        fullName  == JoinStrings([i \in 1..Len(nameParts) |-> StringOf(nameParts[i])],
                                 <<" ">>)
        namePart ==
            IF Truthy(Field(kName)) THEN <<Line(Capitalized(kName), Field(kName))>>
            ELSE IF Truthy(Field(kFirstName)) \/ Truthy(Field(kLastName))
            THEN (IF fullName # <<>> THEN <<Line(Capitalized(kName), Str(fullName))>> ELSE <<>>)
            ELSE <<>>
        Opt(label, k) == IF Truthy(Field(k)) THEN <<Line(label, Field(k))>> ELSE <<>>
        keys   == ObjectKeys(formData)
        others == SelectSeq(keys, LAMBDA k : ~StartsWith(k, "_") /\ k \notin RecognizedKeys)
        otherPart == [i \in 1..Len(others) |->
                         Line(Capitalized(others[i]),
                              IF formData.t = "string"
                              THEN Str(<<formData.s[CHOOSE j \in 1..Len(keys) : keys[j] = others[i]]>>)
                              ELSE Field(others[i]))]
        parts == <<HeaderLine>> \o namePart
                  \o Opt(Capitalized(kPhone), kPhone) \o Opt(Capitalized(kEmail), kEmail)
                  \o Opt(Capitalized(kService), kService) \o Opt(Capitalized(kMessage), kMessage)
                  \o Opt(Capitalized(kWebsite), kWebsiteUrl) \o otherPart
    IN JoinStrings(parts, <<"\n">>)

formatFormDataMessage(formData) ==
    LET Field(k) == Get(formData, k)
        nameParts == SelectSeq(<<Field(kFirstName), Field(kLastName)>>, Truthy)
        fullName  == JoinStrings([i \in 1..Len(nameParts) |-> StringOf(nameParts[i])],
                                 <<" ">>)
        namePart ==
            IF Truthy(Field(kName)) THEN <<Line(Capitalized(kName), Field(kName))>>
            ELSE IF Truthy(Field(kFirstName)) \/ Truthy(Field(kLastName))
            THEN (IF fullName # <<>> THEN <<Line(Capitalized(kName), Str(fullName))>> ELSE <<>>)
            ELSE <<>>
        Opt(label, k) == IF Truthy(Field(k)) THEN <<Line(label, Field(k))>> ELSE <<>>
        keys   == ObjectKeys(formData)
        others == SelectSeq(keys, LAMBDA k : ~StartsWith(k, "_") /\ k \notin RecognizedKeys)
        otherPart == [i \in 1..Len(others) |->
                         Line(Capitalized(others[i]),
                              IF formData.t = "string"
                              THEN Str(<<formData.s[CHOOSE j \in 1..Len(keys) : keys[j] = others[i]]>>)
                              ELSE Field(others[i]))]
        parts == <<HeaderLine>> \o namePart
                  \o Opt(Capitalized(kEmail), kEmail) \o Opt(Capitalized(kPhone), kPhone)
                  \o Opt(Capitalized(kService), kService) \o Opt(Capitalized(kMessage), kMessage)
                  \o Opt(Capitalized(kWebsite), kWebsiteUrl) \o otherPart
    IN JoinStrings(parts, <<"\n">>)

----------------------------------------------------------------------------
(* State of one deployment of exports.handler *)

VARIABLES
    env,          \* process.env: slackUrl, accountSid, authToken, fromPhone
    file,         \* the webnumber_map file: [readable, content]
    request,      \* the event being handled
    pc,           \* position of the handler
    formData,     \* the normalised field map
    formMessage,  \* the rendered form message
    results,      \* slackResult, smsResult1, smsResult1b, smsResult2
    calls,        \* delivery calls issued to Slack / Twilio, in order
    attempted,    \* channels whose send function the handler has invoked
    sends,        \* invocations of sendTwilioSMS with their arguments, in order
    lookups,      \* invocations of getPhoneForWebsite: key, file read, result
    outcome,      \* per channel: none, pending, sent, skipped or failed
    logFwd,       \* the un-awaited fetch to the logs function
    response      \* what the handler returned

handlerVars == <<env, file, request, pc, formData, formMessage, results, calls,
                 attempted, sends, lookups, outcome, logFwd, response>>

vars == <<env, file, request, pc, formData, formMessage, results, calls,
          attempted, sends, lookups, outcome, logFwd, response,
          phoneIn, phoneOut, phoneDone, fmtIn, fmtOut, fmtDone,
          mapTable, mapKey, mapOut, mapDone,
          logStorage, logCount, logReply>>

Channels == {"slack", "mapped", "fixed", "customer"}

Timestamp == Str(<<"ts">>)

AdditionalNumber_national == Str(<<"0", "7", "8", "6", "2", "1", "3", "9", "9", "5", "9">>)

AdditionalNumber == Str(<<"+", "4", "4", "7", "8", "6", "2", "1", "3", "9", "9", "5", "9">>)

ConfirmationMessage == <<"Thanks for your message!">>

NoResponse == [statusCode |-> 0, headers |-> [cors |-> FALSE, hookSecret |-> Undefined],
               body |-> Undefined]

NoRequest == [httpMethod |-> "NONE", hookLower |-> Undefined, hookUpper |-> Undefined,
              challenge |-> Undefined, body |-> [form |-> "absent", value |-> Undefined]]

NoOutcome == [ch \in Channels |-> "none"]

NoResults == [slackResult |-> Null, smsResult1 |-> Null, smsResult1b |-> Null,
              smsResult2 |-> Null]

\* headers of line 296 (full CORS set) and responseHeaders of lines 323 / 371
CorsHeaders == [cors |-> TRUE, hookSecret |-> Undefined]
HandshakeHeaders(secret) == [cors |-> FALSE, hookSecret |-> secret]

HookSecret_upperFirst(r) == Or(r.hookUpper, r.hookLower)

\* event.headers['x-hook-secret'] || event.headers['X-Hook-Secret']
HookSecret(r) == Or(r.hookLower, r.hookUpper)

----------------------------------------------------------------------------
(* Payload normalisation, lines 383-440 *)

\* event.body || '{}' followed by JSON.parse; form is "absent", "empty"
\* (the empty string), "malformed" or "json" (text that parses to value)
RawBody(r) == IF r.body.form \in {"absent", "empty"} THEN Obj(<<>>) ELSE r.body.value

\* what makes the try block of lines 385-418 throw: JSON.parse on malformed
\* text, or reading .submission of null
ParseThrows(r) ==
    \/ r.body.form = "malformed"
    \/ r.body.form = "json" /\ r.body.value.t = "null"

IsWrapper(v) == Truthy(v) /\ TypeofObject(v)

Unwrap_dataFirst(rawBody) ==
    IF IsWrapper(Get(rawBody, kData)) THEN Get(rawBody, kData)
    ELSE IF IsWrapper(Get(rawBody, kSubmission)) THEN Get(rawBody, kSubmission)
    ELSE IF IsWrapper(Get(rawBody, kPayload)) THEN Get(rawBody, kPayload)
    ELSE rawBody

Unwrap(rawBody) ==
    IF IsWrapper(Get(rawBody, kSubmission)) THEN Get(rawBody, kSubmission)
    ELSE IF IsWrapper(Get(rawBody, kData)) THEN Get(rawBody, kData)
    ELSE IF IsWrapper(Get(rawBody, kPayload)) THEN Get(rawBody, kPayload)
    ELSE rawBody

NoFormData_falsyOnly(fd) == ~Truthy(fd)

\* !formData || Object.keys(formData).length === 0
NoFormData(fd) == ~Truthy(fd) \/ Len(ObjectKeys(fd)) = 0

----------------------------------------------------------------------------
(* sendTwilioSMS and sendToSlack *)

SkippedResult == Obj(<<M(kSkipped, True)>>)
SmsSuccess    == Obj(<<M(kSuccess, True)>>)
SlackResponse == Obj(<<M(<<"ok">>, True)>>)

TwilioFrom_defaultOnly(fromPhoneOverride) == env.fromPhone

\* fromPhoneOverride || process.env.TWILIO_PHONE_NUMBER
TwilioFrom(fromPhoneOverride) == Or(fromPhoneOverride, env.fromPhone)

\* the three early returns of sendTwilioSMS, lines 78-93
TwilioSkips(toPhone, fromPhoneOverride) ==
    \/ ~env.accountSid \/ ~env.authToken \/ ~Truthy(TwilioFrom(fromPhoneOverride))
    \/ ~Truthy(toPhone)
    \/ ~StartsWith(toPhone.s, "+")

\* the early return of sendToSlack, lines 212-218
SlackSkips == env.slackUrl \in {"unset", "placeholder"}

\* building the payload throws: String(value) of lines 231-234 for a member
\* that cannot be converted
SlackPayloadThrows(fd) ==
    fd.t \in {"object", "array"} /\ \E i \in 1..Len(fd.o) : Unprintable(fd.o[i].v)

SmsCall(ch, message, toPhone, fromPhoneOverride) ==
    [channel |-> ch, message |-> message, to |-> toPhone.s,
     from |-> TwilioFrom(fromPhoneOverride).s, fields |-> Null, status |-> "pending"]

StartSms_noAwait(ch, field, waitPc, nextPc, message, toPhone, fromPhoneOverride) ==
    /\ attempted' = attempted \cup {ch}
    /\ sends' = Append(sends, [channel |-> ch, message |-> message, to |-> toPhone,
                                fromPhoneOverride |-> fromPhoneOverride])
    /\ IF TwilioSkips(toPhone, fromPhoneOverride)
       THEN /\ results' = [results EXCEPT ![field] = SkippedResult]
            /\ outcome' = [outcome EXCEPT ![ch] = "skipped"]
            /\ pc' = nextPc
            /\ UNCHANGED calls
       ELSE /\ calls' = Append(calls, SmsCall(ch, message, toPhone, fromPhoneOverride))
            /\ outcome' = [outcome EXCEPT ![ch] = "pending"]
            /\ pc' = nextPc
            /\ UNCHANGED results

\* await sendTwilioSMS(...) as called for channel ch: either it returns
\* {skipped: true} at once or client.messages.create is issued and awaited
StartSms(ch, field, waitPc, nextPc, message, toPhone, fromPhoneOverride) ==
    /\ attempted' = attempted \cup {ch}
    /\ sends' = Append(sends, [channel |-> ch, message |-> message, to |-> toPhone,
                                fromPhoneOverride |-> fromPhoneOverride])
    /\ IF TwilioSkips(toPhone, fromPhoneOverride)
       THEN /\ results' = [results EXCEPT ![field] = SkippedResult]
            /\ outcome' = [outcome EXCEPT ![ch] = "skipped"]
            /\ pc' = nextPc
            /\ UNCHANGED calls
       ELSE /\ calls' = Append(calls, SmsCall(ch, message, toPhone, fromPhoneOverride))
            /\ outcome' = [outcome EXCEPT ![ch] = "pending"]
            /\ pc' = waitPc
            /\ UNCHANGED results

\* a branch of the handler that sets { skipped: true, reason } itself
SkipChannel(ch, field, nextPc) ==
    /\ results' = [results EXCEPT ![field] = SkippedResult]
    /\ outcome' = [outcome EXCEPT ![ch] = "skipped"]
    /\ pc' = nextPc
    /\ UNCHANGED <<calls, attempted, sends>>

----------------------------------------------------------------------------
(* exports.handler *)

Respond(status, hdrs, body) ==
    /\ response' = [statusCode |-> status, headers |-> hdrs, body |-> body]
    /\ pc' = "done"

HandlerIdle == UNCHANGED <<env, file, request, formData, formMessage, results, calls,
                           attempted, outcome, logFwd>>

\* a new invocation: every per-request entity is constructed afresh
Receive(r) ==
    /\ pc = "idle"
    /\ request' = r
    /\ pc' = "handler"
    /\ formData' = Undefined
    /\ formMessage' = <<>>
    /\ results' = NoResults
    /\ calls' = <<>>
    /\ attempted' = {}
    /\ sends' = <<>>
    /\ lookups' = <<>>
    /\ outcome' = NoOutcome
    /\ logFwd' = "none"
    /\ response' = NoResponse
    /\ UNCHANGED <<env, file>>
    /\ UNCHANGED pureVars

\* the invocation is over: its entities are discarded
Finish ==
    /\ pc = "done"
    /\ request' = NoRequest
    /\ pc' = "idle"
    /\ formData' = Undefined
    /\ formMessage' = <<>>
    /\ results' = NoResults
    /\ calls' = <<>>
    /\ attempted' = {}
    /\ sends' = <<>>
    /\ lookups' = <<>>
    /\ outcome' = NoOutcome
    /\ logFwd' = "none"
    /\ response' = NoResponse
    /\ UNCHANGED <<env, file>>
    /\ UNCHANGED pureVars

\* lines 304-310
Options ==
    /\ pc = "handler" /\ request.httpMethod = "OPTIONS"
    /\ Respond(200, CorsHeaders, Str(<<>>))
    /\ HandlerIdle
    /\ UNCHANGED <<sends, lookups>>
    /\ UNCHANGED pureVars

\* lines 314-333
GetHandshake ==
    /\ pc = "handler" /\ request.httpMethod = "GET"
    /\ Truthy(HookSecret(request))
    /\ Respond(200, HandshakeHeaders(HookSecret(request)), Str(<<>>))
    /\ HandlerIdle
    /\ UNCHANGED <<sends, lookups>>
    /\ UNCHANGED pureVars

GetChallenge_first ==
    /\ pc = "handler" /\ request.httpMethod = "GET"
    /\ Truthy(request.challenge)
    /\ Respond(200, CorsHeaders,
               Obj(<< M(<<"challenge">>, request.challenge),
                      M(kMessage, Str(<<"REST Hook endpoint verified">>)) >>))
    /\ HandlerIdle
    /\ UNCHANGED <<sends, lookups>>
    /\ UNCHANGED pureVars

\* lines 336-347
GetChallenge ==
    /\ pc = "handler" /\ request.httpMethod = "GET"
    /\ ~Truthy(HookSecret(request))
    /\ Truthy(request.challenge)
    /\ Respond(200, CorsHeaders,
               Obj(<< M(<<"challenge">>, request.challenge),
                      M(kMessage, Str(<<"REST Hook endpoint verified">>)) >>))
    /\ HandlerIdle
    /\ UNCHANGED <<sends, lookups>>
    /\ UNCHANGED pureVars

\* lines 350-358
GetLiveness ==
    /\ pc = "handler" /\ request.httpMethod = "GET"
    /\ ~Truthy(HookSecret(request))
    /\ ~Truthy(request.challenge)
    /\ Respond(200, CorsHeaders,
               Obj(<< M(kMessage, Str(<<"Formspree webhook endpoint is active">>)),
                      M(<<"method">>, Str(<<"GET">>)),
                      M(<<"timestamp">>, Timestamp) >>))
    /\ HandlerIdle
    /\ UNCHANGED <<sends, lookups>>
    /\ UNCHANGED pureVars

\* lines 362-381
PostHandshake ==
    /\ pc = "handler" /\ request.httpMethod = "POST"
    /\ Truthy(HookSecret(request))
    /\ Respond(200, HandshakeHeaders(HookSecret(request)), Str(<<>>))
    /\ HandlerIdle
    /\ UNCHANGED <<sends, lookups>>
    /\ UNCHANGED pureVars

\* lines 419-429
PostInvalidJson ==
    /\ pc = "handler" /\ request.httpMethod = "POST"
    /\ ~Truthy(HookSecret(request))
    /\ ParseThrows(request)
    /\ Respond(400, CorsHeaders,
               Obj(<< M(<<"error">>, Str(<<"Invalid JSON in request body">>)),
                      M(<<"details">>, Str(<<"parseError.message">>)) >>))
    /\ HandlerIdle
    /\ UNCHANGED <<sends, lookups>>
    /\ UNCHANGED pureVars

\* lines 432-440
PostNoFormData ==
    /\ pc = "handler" /\ request.httpMethod = "POST"
    /\ ~Truthy(HookSecret(request))
    /\ ~ParseThrows(request)
    /\ NoFormData(Unwrap(RawBody(request)))
    /\ Respond(400, CorsHeaders,
               Obj(<< M(<<"error">>, Str(<<"No form data received">>)) >>))
    /\ UNCHANGED <<env, file, request, formMessage, results, calls, attempted, outcome,
                   logFwd>>
    /\ formData' = Unwrap(RawBody(request))
    /\ UNCHANGED <<sends, lookups>>
    /\ UNCHANGED pureVars

\* lines 442-470: the submission is accepted, logged, and the log-forwarding
\* fetch is issued without being awaited
PostAccept ==
    /\ pc = "handler" /\ request.httpMethod = "POST"
    /\ ~Truthy(HookSecret(request))
    /\ ~ParseThrows(request)
    /\ ~NoFormData(Unwrap(RawBody(request)))
    /\ formData' = Unwrap(RawBody(request))
    /\ logFwd' = "pending"
    /\ pc' = "slack"
    /\ UNCHANGED <<env, file, request, formMessage, results, calls, attempted, outcome,
                   response>>
    /\ UNCHANGED <<sends, lookups>>
    /\ UNCHANGED pureVars

\* lines 576-584
MethodNotAllowed ==
    /\ pc = "handler" /\ request.httpMethod \notin {"OPTIONS", "GET", "POST"}
    /\ Respond(405, CorsHeaders,
               Obj(<< M(<<"error">>, Str(<<"Method not allowed">>)),
                      M(<<"allowedMethods">>,
                        Arr(<< M(<<"0">>, Str(<<"GET">>)), M(<<"1">>, Str(<<"POST">>)),
                               M(<<"2">>, Str(<<"OPTIONS">>)) >>)) >>))
    /\ HandlerIdle
    /\ UNCHANGED <<sends, lookups>>
    /\ UNCHANGED pureVars

\* the delivery call in flight (the last one issued) resolves or rejects
Settle(cs, status) == [cs EXCEPT ![Len(cs)].status = status]

\* lines 473-475 with sendToSlack up to its await
SlackCall ==
    /\ pc = "slack"
    /\ attempted' = attempted \cup {"slack"}
    /\ IF SlackSkips
       THEN /\ results' = [results EXCEPT !.slackResult = SkippedResult]
            /\ outcome' = [outcome EXCEPT !["slack"] = "skipped"]
            /\ pc' = "sms1"
            /\ UNCHANGED calls
       ELSE IF SlackPayloadThrows(formData)
       THEN /\ outcome' = [outcome EXCEPT !["slack"] = "failed"]   \* caught at line 476
            /\ pc' = "sms1"
            /\ UNCHANGED <<calls, results>>
       ELSE /\ calls' = Append(calls, [channel |-> "slack", message |-> <<>>,
                                       to |-> <<"SLACK_WEBHOOK_URL">>, from |-> <<>>,
                                       fields |-> formData, status |-> "pending"])
            /\ outcome' = [outcome EXCEPT !["slack"] = "pending"]
            /\ pc' = "slackWait"
            /\ UNCHANGED results
    /\ UNCHANGED <<env, file, request, formData, formMessage, logFwd, response>>
    /\ UNCHANGED <<sends, lookups>>
    /\ UNCHANGED pureVars

\* the Slack request succeeded: line 262, then line 475 assigns
SlackReturn ==
    /\ pc = "slackWait"
    /\ results' = [results EXCEPT !.slackResult = SlackResponse]
    /\ calls' = Settle(calls, "resolved")
    /\ outcome' = [outcome EXCEPT !["slack"] = "sent"]
    /\ pc' = "sms1"
    /\ UNCHANGED <<env, file, request, formData, formMessage, attempted, logFwd, response>>
    /\ UNCHANGED <<sends, lookups>>
    /\ UNCHANGED pureVars

\* the Slack request failed: lines 263-266 rethrow, lines 476-479 catch
SlackThrow ==
    /\ pc = "slackWait"
    /\ calls' = Settle(calls, "rejected")
    /\ outcome' = [outcome EXCEPT !["slack"] = "failed"]
    /\ pc' = "sms1"
    /\ UNCHANGED <<env, file, request, formData, formMessage, results, attempted, logFwd,
                   response>>
    /\ UNCHANGED <<sends, lookups>>
    /\ UNCHANGED pureVars

WebsiteUrlOf_siteUrlFirst(fd) ==
    Or(Or(Get(fd, kSiteUrl), Get(fd, kWebsite)), Get(fd, kWebsiteUrl))

\* formData.websiteUrl || formData.website || formData.siteUrl
WebsiteUrlOf(fd) == Or(Or(Get(fd, kWebsiteUrl), Get(fd, kWebsite)), Get(fd, kSiteUrl))

\* line 491 throws outside the channels' try blocks: lines 586-598
RenderThrows ==
    /\ pc = "sms1"
    /\ FormatThrows(formData)
    /\ Respond(500, CorsHeaders,
               Obj(<< M(<<"error">>, Str(<<"Internal server error">>)),
                      M(kMessage, Str(<<"error.message">>)),
                      M(<<"timestamp">>, Timestamp) >>))
    /\ HandlerIdle
    /\ UNCHANGED <<sends, lookups>>
    /\ UNCHANGED pureVars

\* lines 491-526: render the message, then the mapped-client channel
MappedSms ==
    /\ pc = "sms1"
    /\ ~FormatThrows(formData)
    /\ \E message \in {formatFormDataMessage(formData)},
          websiteUrl \in {WebsiteUrlOf(formData)} :
         \E websiteMapping \in {getPhoneForWebsite(file, websiteUrl)} :
            LET clientNumber == Get(websiteMapping, <<"clientNumber">>)
                twilioFromNumber == Or(Get(websiteMapping, <<"twilioNumber">>), Null)
            IN /\ formMessage' = message
               /\ lookups' = IF Truthy(websiteUrl)
                             THEN Append(lookups, [key |-> websiteUrl, file |-> file,
                                                   result |-> websiteMapping])
                             ELSE lookups
               /\ IF Truthy(websiteUrl) /\ Truthy(websiteMapping) /\ Truthy(clientNumber)
                  THEN \E clientPhone \in {IF ~StartsWith(clientNumber.s, "+")
                                           THEN formatPhoneNumber(clientNumber)
                                           ELSE clientNumber} :
                          StartSms("mapped", "smsResult1", "sms1Wait", "sms1b",
                                   message, clientPhone, twilioFromNumber)
                  ELSE SkipChannel("mapped", "smsResult1", "sms1b")
    /\ UNCHANGED <<env, file, request, formData, logFwd, response>>
    /\ UNCHANGED pureVars

\* lines 528-539: the additional number
FixedSms ==
    /\ pc = "sms1b"
    /\ StartSms("fixed", "smsResult1b", "sms1bWait", "sms2",
                formMessage, AdditionalNumber, Null)
    /\ UNCHANGED <<env, file, request, formData, formMessage, logFwd, response>>
    /\ UNCHANGED lookups
    /\ UNCHANGED pureVars

\* lines 541-558: the confirmation to the customer
CustomerSms ==
    /\ pc = "sms2"
    /\ \E customerPhone \in {formatPhoneNumber(Get(formData, kPhone))} :
       IF customerPhone = Thrown
       THEN /\ pc' = "respond"   \* TypeError caught at line 556
            /\ outcome' = [outcome EXCEPT !["customer"] = "failed"]
            /\ UNCHANGED <<results, calls, attempted, sends>>
       ELSE IF Truthy(customerPhone)
       THEN StartSms("customer", "smsResult2", "sms2Wait", "respond",
                     ConfirmationMessage, customerPhone, Null)
       ELSE SkipChannel("customer", "smsResult2", "respond")
    /\ UNCHANGED <<env, file, request, formData, formMessage, logFwd, response>>
    /\ UNCHANGED lookups
    /\ UNCHANGED pureVars

WaitPcs == {"sms1Wait", "sms1bWait", "sms2Wait"}

ResultField(p) ==
    CASE p = "sms1Wait" -> "smsResult1"
      [] p = "sms1bWait" -> "smsResult1b"
      [] p = "sms2Wait" -> "smsResult2"

WaitChannel(p) ==
    CASE p = "sms1Wait" -> "mapped"
      [] p = "sms1bWait" -> "fixed"
      [] p = "sms2Wait" -> "customer"

AfterWait_stay(p) == p

AfterWait_again(p) ==
    CASE p = "sms1Wait" -> "sms1"
      [] p = "sms1bWait" -> "sms1b"
      [] p = "sms2Wait" -> "sms2"

AfterWait(p) ==
    CASE p = "sms1Wait" -> "sms1b"
      [] p = "sms1bWait" -> "sms2"
      [] p = "sms2Wait" -> "respond"

\* client.messages.create resolved: lines 106-111
SmsReturn ==
    /\ pc \in WaitPcs
    /\ results' = [results EXCEPT ![ResultField(pc)] = SmsSuccess]
    /\ calls' = Settle(calls, "resolved")
    /\ outcome' = [outcome EXCEPT ![WaitChannel(pc)] = "sent"]
    /\ pc' = AfterWait(pc)
    /\ UNCHANGED <<env, file, request, formData, formMessage, attempted, logFwd, response>>
    /\ UNCHANGED <<sends, lookups>>
    /\ UNCHANGED pureVars

\* client.messages.create rejected: lines 112-121 rethrow, the channel's
\* catch (lines 523, 536, 556) swallows it
SmsThrow ==
    /\ pc \in WaitPcs
    /\ calls' = Settle(calls, "rejected")
    /\ outcome' = [outcome EXCEPT ![WaitChannel(pc)] = "failed"]
    /\ pc' = AfterWait(pc)
    /\ UNCHANGED <<env, file, request, formData, formMessage, results, attempted, logFwd,
                   response>>
    /\ UNCHANGED <<sends, lookups>>
    /\ UNCHANGED pureVars

\* result && !result.skipped
SentFlag_anyResult(result) == And(result, True)

SentFlag(result) == And(result, Not(Get(result, kSkipped)))

\* lines 560-573
SendResponse ==
    /\ pc = "respond"
    /\ Respond(200, CorsHeaders,
               Obj(<< M(kSuccess, True),
                      M(kMessage, Str(<<"Webhook received and processed">>)),
                      M(<<"receivedAt">>, Timestamp),
                      M(<<"slackSent">>, SentFlag(results.slackResult)),
                      M(<<"businessSmsSent">>, SentFlag(results.smsResult1)),
                      M(<<"additionalSmsSent">>, SentFlag(results.smsResult1b)),
                      M(<<"customerSmsSent">>, SentFlag(results.smsResult2)) >>))
    /\ HandlerIdle
    /\ UNCHANGED <<sends, lookups>>
    /\ UNCHANGED pureVars

\* the promise of the log-forwarding fetch settles; a rejection is swallowed
\* by the .catch of line 467
LogForwardSettles ==
    /\ logFwd = "pending"
    /\ logFwd' \in {"stored", "failed"}
    /\ UNCHANGED <<env, file, request, pc, formData, formMessage, results, calls,
                   attempted, outcome, response>>
    /\ UNCHANGED <<sends, lookups>>
    /\ UNCHANGED pureVars

----------------------------------------------------------------------------
(* Environments, mapping files and requests the model explores *)

DefaultSender == Str(<<"+", "1">>)

FullEnv == [slackUrl |-> "url", accountSid |-> TRUE, authToken |-> TRUE,
            fromPhone |-> DefaultSender]

Envs ==
    { FullEnv,
      [FullEnv EXCEPT !.slackUrl = "unset"],
      [FullEnv EXCEPT !.slackUrl = "placeholder"],
      [FullEnv EXCEPT !.accountSid = FALSE],
      [FullEnv EXCEPT !.authToken = FALSE],
      [FullEnv EXCEPT !.fromPhone = Undefined] }

\* header row, then  x,07,  and  y,+9,+8
MainTable == <<"h", "\n", "x", ",", "0", "7", ",", "\n",
               "y", ",", "+", "9", ",", "+", "8">>

Files ==
    { [readable |-> TRUE, content |-> MainTable],
      [readable |-> TRUE, content |-> <<"h">>],
      [readable |-> FALSE, content |-> MainTable] }

FieldMaps ==
    { Obj(<<M(kName, Str(<<"A">>))>>),
      Obj(<<M(kName, Str(<<"A">>)), M(kPhone, Str(<<"0", "7">>))>>),
      Obj(<<M(kPhone, Num(<<"7">>))>>),
      Obj(<<M(kName, Str(<<"A">>)), M(kPhone, Str(<<"+", "4", "4", "7">>)),
            M(kWebsiteUrl, Str(<<"x">>))>>),
      Obj(<<M(kWebsiteUrl, Str(<<"y">>)), M(kPhone, Str(<<"4", "4", "7">>))>>),
      Obj(<<M(kWebsite, Str(<<"x">>)), M(kMessage, Str(<<"B">>))>>),
      Obj(<<M(kSiteUrl, Str(<<"z">>))>>),
      Obj(<<M(kWebsiteUrl, Str(<<"https://", "x">>))>>),
      Obj(<<M(kName, Obj(<<M(kToString, Num(<<"1">>))>>))>>),
      Obj(<<M(kSiteUrl, Str(<<"y">>)), M(kWebsite, Str(<<"x">>)),
            M(kWebsiteUrl, Str(<<>>))>>),
      Obj(<<M(<<"c", "i", "t", "y">>, Str(<<"C">>)), M(<<"_", "g">>, Str(<<"D">>)),
            M(kPhone, Str(<<>>))>>) }

Wrapped == {Obj(<<M(kName, Str(<<"A">>))>>),
            Obj(<<M(kWebsiteUrl, Str(<<"y">>)), M(kPhone, Str(<<"4", "4", "7">>))>>)}

Envelopes ==
    {Obj(<<M(k, f)>>) : k \in {kSubmission, kData, kPayload}, f \in Wrapped}
    \cup
    { \* submission is not an object: data is used
      Obj(<<M(kSubmission, Str(<<"s">>)), M(kData, Obj(<<M(kName, Str(<<"A">>))>>))>>),
      \* two wrappers: submission wins whatever the member order
      Obj(<<M(kPayload, Obj(<<M(kName, Str(<<"P">>))>>)),
            M(kData, Obj(<<M(kName, Str(<<"D">>))>>)),
            M(kSubmission, Obj(<<M(kName, Str(<<"S">>))>>))>>),
      Obj(<<M(kPayload, Obj(<<M(kName, Str(<<"P">>))>>)),
            M(kData, Obj(<<M(kName, Str(<<"D">>))>>))>>),
      \* null wrapper is skipped
      Obj(<<M(kSubmission, Null), M(kPayload, Obj(<<M(kEmail, Str(<<"E">>))>>))>>),
      \* an envelope inside an envelope
      Obj(<<M(kSubmission, Obj(<<M(kData, Obj(<<M(kName, Str(<<"A">>))>>))>>))>>),
      \* an array is an object to typeof
      Obj(<<M(kData, Arr(<<M(<<"0">>, Str(<<"A">>))>>))>>),
      \* empty after unwrapping
      Obj(<<M(kSubmission, Obj(<<>>))>>),
      Obj(<<M(kData, Arr(<<>>))>>) }

OtherJson ==
    { Obj(<<>>), Arr(<<>>), Null, Num(<<"5">>), Num(<<"0">>), Str(<<>>), Str(<<"a">>),
      True, Arr(<<M(<<"0">>, Num(<<"1">>))>>) }

JsonBody(v) == [form |-> "json", value |-> v]

Bodies ==
    { [form |-> "absent", value |-> Undefined],
      [form |-> "empty", value |-> Undefined],
      [form |-> "malformed", value |-> Undefined] }
    \cup {JsonBody(v) : v \in FieldMaps \cup Envelopes \cup OtherJson}

HeaderValues == {Undefined, Str(<<>>), Str(<<"s", "1">>)}
UpperHeaderValues == {Undefined, Str(<<"S", "2">>)}
ChallengeValues == {Undefined, Str(<<>>), Str(<<"c">>)}

Requests ==
    [httpMethod : {"GET", "OPTIONS", "PUT"}, hookLower : HeaderValues,
     hookUpper : UpperHeaderValues, challenge : ChallengeValues,
     body : {[form |-> "absent", value |-> Undefined]}]
    \cup
    [httpMethod : {"POST"}, hookLower : HeaderValues,
     hookUpper : UpperHeaderValues, challenge : {Undefined}, body : Bodies]
    \cup
    [httpMethod : {"POST"}, hookLower : {Undefined},
     hookUpper : {Undefined}, challenge : {Str(<<"c">>)},
     body : {JsonBody(Obj(<<M(kName, Str(<<"A">>))>>))}]

\* the mapping file is managed outside the process and may be replaced at any time
UpdateTable ==
    /\ file' \in Files \ {file}
    /\ UNCHANGED <<env, request, pc, formData, formMessage, results, calls, attempted,
                   outcome, logFwd, response>>
    /\ UNCHANGED <<sends, lookups>>
    /\ UNCHANGED pureVars

----------------------------------------------------------------------------
(* Specification of the webhook handler *)

HandlerInit ==
    /\ env \in Envs
    /\ file \in Files
    /\ request = NoRequest
    /\ pc = "idle"
    /\ formData = Undefined
    /\ formMessage = <<>>
    /\ results = NoResults
    /\ calls = <<>>
    /\ attempted = {}
    /\ sends = <<>>
    /\ lookups = <<>>
    /\ outcome = NoOutcome
    /\ logFwd = "none"
    /\ response = NoResponse

PhoneIdle ==
    /\ phoneIn = Undefined
    /\ phoneOut = Undefined
    /\ phoneDone = FALSE

FormatIdle ==
    /\ fmtIn = Undefined
    /\ fmtOut = <<>>
    /\ fmtDone = FALSE

MapIdle ==
    /\ mapTable = <<>>
    /\ mapKey = <<>>
    /\ mapOut = Undefined
    /\ mapDone = FALSE

LogIdle ==
    /\ logStorage = <<>>
    /\ logCount = 0
    /\ logReply = [statusCode |-> 0, count |-> 0]

Init == HandlerInit /\ PhoneIdle /\ FormatIdle /\ MapIdle /\ LogIdle

Next ==
    \/ \E r \in Requests : Receive(r)
    \/ Finish
    \/ Options
    \/ GetHandshake
    \/ GetChallenge
    \/ GetLiveness
    \/ PostHandshake
    \/ PostInvalidJson
    \/ PostNoFormData
    \/ PostAccept
    \/ MethodNotAllowed
    \/ SlackCall
    \/ SlackReturn
    \/ SlackThrow
    \/ RenderThrows
    \/ MappedSms
    \/ FixedSms
    \/ CustomerSms
    \/ SmsReturn
    \/ SmsThrow
    \/ SendResponse
    \/ LogForwardSettles
    \/ UpdateTable


Spec == Init /\ [][Next]_vars

\* the steps exports.handler runs by itself: node runs an invocation up to its
\* next await or return
HandlerRuns ==
    \/ Options
    \/ GetHandshake
    \/ GetChallenge
    \/ GetLiveness
    \/ PostHandshake
    \/ PostInvalidJson
    \/ PostNoFormData
    \/ PostAccept
    \/ MethodNotAllowed
    \/ SlackCall
    \/ RenderThrows
    \/ MappedSms
    \/ FixedSms
    \/ CustomerSms
    \/ SendResponse

\* the awaited fetch (line 253) or client.messages.create (line 106) settles
DeliverySettles ==
    \/ SlackReturn
    \/ SlackThrow
    \/ SmsReturn
    \/ SmsThrow

\* the handler under the assumption that every delivery call returns or throws
SpecLive == Spec /\ WF_vars(HandlerRuns) /\ WF_vars(DeliverySettles)

----------------------------------------------------------------------------
(* Inputs and the step of the Phone Normalizer *)

MaxPhoneLen == 4

PhoneAlphabet == {"0", "4", "7", "+", " ", "-", "a"}

RECURSIVE StringsUpTo(_, _)
StringsUpTo(alphabet, n) ==
    IF n = 0 THEN {<<>>}
    ELSE LET shorter == StringsUpTo(alphabet, n - 1) IN
         shorter \cup {<<c>> \o s : c \in alphabet, s \in {x \in shorter : Len(x) = n - 1}}

PhoneInputs ==
    {Undefined, Null} \cup {Str(s) : s \in StringsUpTo(PhoneAlphabet, MaxPhoneLen)}

PhoneInit ==
    /\ phoneIn \in PhoneInputs
    /\ phoneOut = Undefined
    /\ phoneDone = FALSE

Normalize ==
    /\ ~phoneDone
    /\ phoneOut' = formatPhoneNumber(phoneIn)
    /\ phoneDone' = TRUE
    /\ UNCHANGED phoneIn
    /\ UNCHANGED <<handlerVars, fmtVars, mapVars, logVars>>

----------------------------------------------------------------------------
(* Specification of the Phone Normalizer on its own *)

HandlerQuiet ==
    /\ env = FullEnv
    /\ file = [readable |-> FALSE, content |-> <<>>]
    /\ request = NoRequest
    /\ pc = "idle"
    /\ formData = Undefined
    /\ formMessage = <<>>
    /\ results = NoResults
    /\ calls = <<>>
    /\ attempted = {}
    /\ sends = <<>>
    /\ lookups = <<>>
    /\ outcome = NoOutcome
    /\ logFwd = "none"
    /\ response = NoResponse

InitPhone == PhoneInit /\ HandlerQuiet /\ FormatIdle /\ MapIdle /\ LogIdle

NextPhone == Normalize

SpecPhone == InitPhone /\ [][NextPhone]_vars

----------------------------------------------------------------------------
(* Inputs and the step of the Message Formatter *)

MaxFields == 3

kField   == <<"f", "i", "e", "l", "d">>
kComment == <<"c", "o", "m", "m", "e", "n", "t">>
kCity    == <<"c", "i", "t", "y">>

FieldPool ==
    { M(kName, Str(<<"A">>)), M(kFirstName, Str(<<"F">>)), M(kLastName, Str(<<"L">>)),
      M(kEmail, Str(<<"E">>)), M(kPhone, Str(<<"0", "7">>)), M(kService, Str(<<"S">>)),
      M(kMessage, Str(<<"B">>)), M(kWebsiteUrl, Str(<<"x">>)),
      M(kField, Str(<<"T">>)), M(kComment, Str(<<"K">>)), M(kWebsite, Str(<<"w">>)),
      M(kCity, Str(<<"C">>)), M(<<"_", "g">>, Str(<<"D">>)), M(kName, Str(<<>>)) }

\* member lists of at most n members with pairwise different keys, in every order
RECURSIVE MemberLists(_, _)
MemberLists(pool, n) ==
    IF n = 0 THEN {<<>>}
    ELSE LET shorter == MemberLists(pool, n - 1)
             Fresh(m, ms) == Len(ms) = n - 1 /\ \A i \in 1..Len(ms) : ms[i].k # m.k
         IN shorter \cup UNION {{<<m>> \o ms : ms \in {x \in shorter : Fresh(m, x)}} :
                                   m \in pool}

FormatInputs(n) == {Obj(ms) : ms \in MemberLists(FieldPool, n)}

FormatInit ==
    /\ fmtIn \in FormatInputs(MaxFields)
    /\ fmtOut = <<>>
    /\ fmtDone = FALSE

Render ==
    /\ ~fmtDone
    /\ fmtOut' = formatFormDataMessage(fmtIn)
    /\ fmtDone' = TRUE
    /\ UNCHANGED fmtIn
    /\ UNCHANGED <<handlerVars, phoneVars, mapVars, logVars>>

----------------------------------------------------------------------------
(* Specification of the Message Formatter on its own *)

InitFormat == FormatInit /\ HandlerQuiet /\ PhoneIdle /\ MapIdle /\ LogIdle

NextFormat == Render

SpecFormat == InitFormat /\ [][NextFormat]_vars

----------------------------------------------------------------------------
(* Inputs and the step of the mapping lookup *)

MaxLines == 3

\* lines of a mapping file, each given as its comma-separated fields
LinePool ==
    { << <<>> >>, << <<" ">> >>, << <<"h">> >>,
      << <<"x">>, <<"7">>, <<"8">> >>,
      << <<"x">>, <<"9">>, <<>> >>,
      << <<"x">>, <<"7">> >>,
      << <<" ", "x", " ">>, <<" ", "5">>, <<"6", "\r">> >>,
      << <<>>, <<"7">>, <<"8">> >>,
      << <<"x">>, <<" ">>, <<"8">> >>,
      << <<"X">>, <<"+", "4">>, <<"8">> >>,
      << <<"y">>, <<"+", "9">>, <<"+", "8">>, <<"3">> >> }

RECURSIVE LineLists(_)
LineLists(n) ==
    IF n = 0 THEN {<<>>}
    ELSE LET shorter == LineLists(n - 1) IN
         shorter \cup {<<l>> \o ls : l \in LinePool, ls \in {x \in shorter : Len(x) = n - 1}}

\* the text of the file: fields joined by commas, lines by newlines
TableText(lines) ==
    JoinStrings([i \in 1..Len(lines) |-> JoinStrings(lines[i], <<",">>)], <<"\n">>)

LookupKeys == {<<"x">>, <<"y">>, <<"X">>, <<" ", "x">>}

MapInit ==
    /\ mapTable \in LineLists(MaxLines)
    /\ mapKey \in LookupKeys
    /\ mapOut = Undefined
    /\ mapDone = FALSE

Lookup ==
    /\ ~mapDone
    /\ mapOut' = getPhoneForWebsite([readable |-> TRUE, content |-> TableText(mapTable)],
                                     Str(mapKey))
    /\ mapDone' = TRUE
    /\ UNCHANGED <<mapTable, mapKey>>
    /\ UNCHANGED <<handlerVars, phoneVars, fmtVars, logVars>>

----------------------------------------------------------------------------
(* Specification of the mapping lookup on its own *)

InitMap == MapInit /\ HandlerQuiet /\ PhoneIdle /\ FormatIdle /\ LogIdle

NextMap == Lookup

SpecMap == InitMap /\ [][NextMap]_vars

----------------------------------------------------------------------------
(* Lookups of successive requests against a mapping file that changes *)

MaxLookups == 2

SubmittedUrls == {<<"x">>, <<"y">>, <<"z">>}

\* MainTable with the destination of x changed
ChangedTable == <<"h", "\n", "x", ",", "+", "6", ",", "\n",
                  "y", ",", "+", "9", ",", "+", "8">>

TableFiles == Files \cup {[readable |-> TRUE, content |-> ChangedTable]}

TableInit ==
    /\ env = FullEnv
    /\ file \in TableFiles
    /\ request = NoRequest
    /\ pc = "idle"
    /\ formData = Undefined
    /\ formMessage = <<>>
    /\ results = NoResults
    /\ calls = <<>>
    /\ attempted = {}
    /\ sends = <<>>
    /\ lookups = <<>>
    /\ outcome = NoOutcome
    /\ logFwd = "none"
    /\ response = NoResponse

\* the file is rewritten between two requests: rows added, changed or removed
RewriteTable ==
    /\ file' \in TableFiles \ {file}
    /\ UNCHANGED <<env, request, pc, formData, formMessage, results, calls, attempted,
                   sends, lookups, outcome, logFwd, response>>
    /\ UNCHANGED pureVars

\* getPhoneForWebsite(websiteUrl) as a request calls it at line 498: the file
\* is read by this call
LookupCall ==
    /\ Len(lookups) < MaxLookups
    /\ \E url \in SubmittedUrls :
          lookups' = Append(lookups, [key |-> Str(url), file |-> file,
                                      result |-> getPhoneForWebsite(file, Str(url))])
    /\ UNCHANGED <<env, file, request, pc, formData, formMessage, results, calls,
                   attempted, sends, outcome, logFwd, response>>
    /\ UNCHANGED pureVars

InitTable == TableInit /\ PhoneIdle /\ FormatIdle /\ MapIdle /\ LogIdle

NextTable ==
    \/ LookupCall
    \/ RewriteTable

SpecTable == InitTable /\ [][NextTable]_vars

----------------------------------------------------------------------------
(* The logs function: netlify/functions/logs.js *)

LogLimit == 100

MaxAppends == 101

\* limit of a GET: parseInt(event.queryStringParameters?.limit || '50', 10)
LogLimits == {1, 50}

\* addLog: unshift, then keep the first LogLimit entries (lines 22-27)
addLog(storage, logEntry) ==
    LET added == <<logEntry>> \o storage
    IN IF Len(added) > LogLimit THEN SubSeq(added, 1, LogLimit) ELSE added

\* getLogs: logStorage.slice(0, limit)
getLogs(storage, limit) ==
    SubSeq(storage, 1, IF limit < Len(storage) THEN limit ELSE Len(storage))

LogsReply(status, count) == logReply' = [statusCode |-> status, count |-> count]

LogsQuiet == UNCHANGED <<handlerVars, phoneVars, fmtVars, mapVars>>

\* lines 59-65
LogsOptions ==
    /\ LogsReply(200, 0)
    /\ UNCHANGED <<logStorage, logCount>>
    /\ LogsQuiet

\* lines 69-82
LogsGet ==
    /\ \E limit \in LogLimits : LogsReply(200, Len(getLogs(logStorage, limit)))
    /\ UNCHANGED <<logStorage, logCount>>
    /\ LogsQuiet

\* lines 85-92 with clearLogs
LogsDelete ==
    /\ logStorage' = <<>>
    /\ LogsReply(200, 0)
    /\ UNCHANGED logCount
    /\ LogsQuiet

\* lines 95-116: the body parses; the entry gets an id of its own (line 17),
\* here its number among all entries added. No await stands between the
\* start of the handler and its return, so an invocation is one step.
LogsPost ==
    /\ logCount < MaxAppends
    /\ logCount' = logCount + 1
    /\ logStorage' = addLog(logStorage, logCount + 1)
    /\ LogsReply(200, 1)
    /\ LogsQuiet

\* lines 97-105
LogsPostInvalidJson ==
    /\ LogsReply(400, 0)
    /\ UNCHANGED <<logStorage, logCount>>
    /\ LogsQuiet

\* lines 118-122
LogsMethodNotAllowed ==
    /\ LogsReply(405, 0)
    /\ UNCHANGED <<logStorage, logCount>>
    /\ LogsQuiet

InitLogs == LogIdle /\ HandlerQuiet /\ PhoneIdle /\ FormatIdle /\ MapIdle

NextLogs ==
    \/ LogsOptions
    \/ LogsGet
    \/ LogsDelete
    \/ LogsPost
    \/ LogsPostInvalidJson
    \/ LogsMethodNotAllowed

SpecLogs == InitLogs /\ [][NextLogs]_vars

----------------------------------------------------------------------------
(* Vocabulary of the properties *)

HasKey(v, k) == \E i \in 1..Len(v.o) : v.o[i].k = k

\* no hook-secret header, or one with an empty value
NoHookSecret(r) ==
    /\ r.hookLower \in {Undefined, Str(<<>>)}
    /\ r.hookUpper \in {Undefined, Str(<<>>)}

\* the header value the service sent: headers arrive lower-cased
ReceivedSecret(r) == IF r.hookLower \notin {Undefined, Str(<<>>)} THEN r.hookLower
                     ELSE r.hookUpper

EnvelopeKeys == <<kSubmission, kData, kPayload>>

\* the first of submission, data, payload whose value is an object, else the top level
ExpectedFieldMap(raw) ==
    LET objs == SelectSeq(EnvelopeKeys, LAMBDA k : Get(raw, k).t \in {"object", "array"})
    IN IF objs = <<>> THEN raw ELSE Get(raw, objs[1])

\* a payload with no field at all
EmptyPayload(v) ==
    \/ v.t \in {"object", "array"} /\ v.o = <<>>
    \/ v.t = "string" /\ v.s = <<>>
    \/ v.t \in {"null", "number", "boolean", "undefined"}

\* a field map within the data model: each field is a string, a scalar or a
\* plain container, so every field has a text form
Renderable(fd) == \A i \in 1..Len(fd.o) : ~Unprintable(fd.o[i].v)

\* a POST whose body is JSON and non-empty after unwrapping, with no usable
\* hook secret (ValidSubmission) or with no hook-secret header at all
ValidSubmissionNoHeader ==
    /\ request.httpMethod = "POST"
    /\ request.hookLower = Undefined /\ request.hookUpper = Undefined
    /\ request.body.form = "json"
    /\ ~EmptyPayload(ExpectedFieldMap(request.body.value))
    /\ Renderable(ExpectedFieldMap(request.body.value))

ValidSubmission ==
    /\ request.httpMethod = "POST"
    /\ NoHookSecret(request)
    /\ request.body.form = "json"
    /\ ~EmptyPayload(ExpectedFieldMap(request.body.value))
    /\ Renderable(ExpectedFieldMap(request.body.value))

PhonePresent(fd) == Get(fd, kPhone) \notin {Undefined, Null, Str(<<>>)}

FlagKeys == {<<"slackSent">>, <<"businessSmsSent">>, <<"additionalSmsSent">>,
             <<"customerSmsSent">>}

FlagOf(ch) ==
    CASE ch = "slack" -> <<"slackSent">>
      [] ch = "mapped" -> <<"businessSmsSent">>
      [] ch = "fixed" -> <<"additionalSmsSent">>
      [] ch = "customer" -> <<"customerSmsSent">>

FinalOutcomes == {"sent", "skipped", "failed"}

NoSideCall == calls = <<>> /\ attempted = {} /\ logFwd = "none"

----------------------------------------------------------------------------
(* Properties of the webhook handler *)

\* C1: for every valid submission and every combination of delivery calls
\* returning or throwing, the response is 200, the chat and fixed-recipient
\* channels are always attempted and the customer SMS is attempted whenever
\* phone is present.
C1_FailureContainment ==
    (ValidSubmissionNoHeader /\ pc = "done") =>
        /\ response.statusCode = 200
        /\ "slack" \in attempted
        /\ "fixed" \in attempted
        /\ PhonePresent(formData) => "customer" \in attempted

\* C2: every valid non-empty submission is answered with 200 and a body that
\* has the four flags, each of them true or false.
C2_FourBooleanFlags ==
    (ValidSubmissionNoHeader /\ pc = "done") =>
        /\ response.statusCode = 200
        /\ \A k \in FlagKeys :
              HasKey(response.body, k) /\ Get(response.body, k) \in {True, False}

\* C3: in a 200 submission response a flag is true only if that channel's
\* delivery call was made and resolved; a skipped or failed channel never
\* reports true.
C3_FlagTrueOnlyIfSent ==
    (ValidSubmission /\ pc = "done" /\ response.statusCode = 200) =>
        \A ch \in Channels :
            /\ Get(response.body, FlagOf(ch)) = True =>
                  \E i \in 1..Len(calls) :
                      calls[i].channel = ch /\ calls[i].status = "resolved"
            /\ outcome[ch] \in {"skipped", "failed"} =>
                  Get(response.body, FlagOf(ch)) # True

C3_Witness ==
    /\ ValidSubmission /\ pc = "done"
    /\ Get(response.body, <<"slackSent">>) = True
    /\ outcome["mapped"] = "skipped"
    /\ outcome["fixed"] = "failed"
    /\ Get(response.body, <<"customerSmsSent">>) = True

C5_PostHandshakePrecedence ==
    (request.httpMethod = "POST" /\ ~NoHookSecret(request)) =>
        /\ NoSideCall
        /\ formData = Undefined
        /\ pc = "done" =>
              /\ response.statusCode = 200
              /\ response.body = Str(<<>>)
              /\ response.headers.hookSecret = ReceivedSecret(request)

C5_Witness ==
    /\ request.httpMethod = "POST" /\ pc = "done"
    /\ request.hookLower = Str(<<"s", "1">>)
    /\ request.body.form = "malformed"
    /\ response.headers.hookSecret = Str(<<"s", "1">>)

LivenessBody ==
    /\ response.headers = CorsHeaders
    /\ HasKey(response.body, kMessage) /\ HasKey(response.body, <<"method">>)
    /\ HasKey(response.body, <<"timestamp">>)

ChallengeBody ==
    /\ response.headers = CorsHeaders
    /\ Get(response.body, <<"challenge">>) = request.challenge
    /\ HasKey(response.body, kMessage)

HandshakeResponse ==
    /\ response.body = Str(<<>>)
    /\ response.headers.hookSecret = ReceivedSecret(request)

\* C6: on GET, a hook-secret header that is present (it has a non-empty
\* value) is echoed unchanged with an empty body, also when a challenge is
\* present; otherwise a challenge parameter that is present (non-empty) is
\* returned with a message; otherwise the liveness payload is returned;
\* every GET gets 200 and triggers no delivery.
C6_GetDecisionOrder ==
    (request.httpMethod = "GET" /\ pc = "done") =>
        /\ response.statusCode = 200
        /\ NoSideCall
        /\ IF ~NoHookSecret(request) THEN HandshakeResponse
           ELSE IF request.challenge \notin {Undefined, Str(<<>>)} THEN ChallengeBody
           ELSE LivenessBody

C6_Witness ==
    /\ request.httpMethod = "GET" /\ pc = "done"
    /\ request.hookLower = Str(<<"s", "1">>)
    /\ request.challenge = Str(<<"c">>)
    /\ response.body = Str(<<>>)

\* C7: a POST without hook secret whose body is malformed JSON gets 400 with
\* error and details; one whose body is absent or empty after unwrapping gets
\* 400 with error; neither makes a log-forward, chat or SMS call; and no other
\* POST gets a 4xx.
C7_RejectionBeforeSideEffects ==
    (request.httpMethod = "POST" /\ pc = "done") =>
        LET malformed == request.body.form = "malformed"
            empty == \/ request.body.form \in {"absent", "empty"}
                     \/ /\ request.body.form = "json"
                        /\ EmptyPayload(ExpectedFieldMap(request.body.value))
        IN /\ (NoHookSecret(request) /\ malformed) =>
                 /\ response.statusCode = 400
                 /\ HasKey(response.body, <<"error">>)
                 /\ HasKey(response.body, <<"details">>)
                 /\ NoSideCall
           /\ (NoHookSecret(request) /\ empty) =>
                 /\ response.statusCode = 400
                 /\ HasKey(response.body, <<"error">>)
                 /\ NoSideCall
           /\ response.statusCode \in 400..499 =>
                 NoHookSecret(request) /\ (malformed \/ empty)

C7_Witness ==
    /\ request.httpMethod = "POST" /\ pc = "done"
    /\ request.body = JsonBody(Obj(<<M(kSubmission, Obj(<<>>))>>))
    /\ response.statusCode = 400
    /\ ~HasKey(response.body, <<"details">>)

\* C8: the working field map is the value of the first of submission, data,
\* payload that is an object, else the top-level object; it is unwrapped once
\* only; the rendered message is the rendering of that field map.
C8_EnvelopeUnwrapping ==
    (/\ request.httpMethod = "POST" /\ NoHookSecret(request)
     /\ request.body.form = "json" /\ request.body.value.t # "null"
     /\ pc \notin {"idle", "handler"}) =>
        LET expected == ExpectedFieldMap(request.body.value)
        IN /\ formData = expected
           /\ pc \notin {"slack", "slackWait", "sms1", "done"} =>
                 formMessage = formatFormDataMessage(expected)
           /\ \A i \in 1..Len(calls) :
                 /\ calls[i].channel = "slack" => calls[i].fields = expected
                 /\ calls[i].channel \in {"mapped", "fixed"} =>
                       calls[i].message = formatFormDataMessage(expected)

C8_Witness ==
    /\ pc = "done" /\ response.statusCode = 200
    /\ request.body =
         JsonBody(Obj(<<M(kSubmission, Obj(<<M(kData, Obj(<<M(kName, Str(<<"A">>))>>))>>))>>))
    /\ formData = Obj(<<M(kData, Obj(<<M(kName, Str(<<"A">>))>>))>>)
    /\ Len(calls) > 0

----------------------------------------------------------------------------
(* Properties of the Phone Normalizer *)

\* the input without its spaces and hyphens
Cleaned(s) == SelectSeq(s, LAMBDA c : c \notin {" ", "-"})

DigitsOnly(s) == \A i \in 1..Len(s) : s[i] \in Digits

CountryCode == <<"+", "4", "4">>

\* C9: an absent (undefined, null or empty) input gives an absent output;
\* otherwise, with spaces and hyphens removed, a leading 0 is replaced by
\* +44, a string without leading + gets +44 prefixed after dropping one
\* leading 44 (so 44... only gains the +), and a string with leading + is
\* returned as cleaned.
C9_PhoneNormalizationRule ==
    phoneDone =>
        IF phoneIn \in {Undefined, Null, Str(<<>>)} THEN phoneOut = Null
        ELSE LET c == Cleaned(phoneIn.s) IN
             /\ phoneOut.t = "string"
             /\ (c # <<>> /\ c[1] = "0") => phoneOut.s = CountryCode \o Tail(c)
             /\ (c # <<>> /\ c[1] = "+") => phoneOut.s = c
             /\ (c = <<>> \/ c[1] \notin {"0", "+"}) =>
                   IF Len(c) >= 2 /\ SubSeq(c, 1, 2) = <<"4", "4">>
                   THEN phoneOut.s = <<"+">> \o c
                   ELSE phoneOut.s = CountryCode \o c

C9_Witness ==
    /\ phoneDone
    /\ phoneIn = Str(<<"4", "4", " ", "7">>)
    /\ phoneOut = Str(<<"+", "4", "4", "7">>)

Canonical(v) == v.t = "string" /\ v.s # <<>> /\ v.s[1] = "+" /\ DigitsOnly(Tail(v.s))

----------------------------------------------------------------------------
(* Properties of the Message Formatter *)

\* a field that is there and not empty
Present(v) == v \notin {Undefined, Null, Str(<<>>)}

TextLines(text) == Split(text, "\n")

FixedOrder ==
    << <<"N", "a", "m", "e">>, <<"E", "m", "a", "i", "l">>, <<"P", "h", "o", "n", "e">>,
       <<"S", "e", "r", "v", "i", "c", "e">>, <<"M", "e", "s", "s", "a", "g", "e">>,
       <<"W", "e", "b", "s", "i", "t", "e">> >>

\* the name of a field map: name, else the present ones of firstName and
\* lastName with one space between them
NameText(fd) ==
    IF Present(Get(fd, kName)) THEN Get(fd, kName).s
    ELSE LET f == Get(fd, kFirstName)
             l == Get(fd, kLastName)
         IN IF Present(f) /\ Present(l) THEN f.s \o <<" ">> \o l.s
            ELSE IF Present(f) THEN f.s
            ELSE IF Present(l) THEN l.s
            ELSE <<>>

TextOf(fd, k) == IF Present(Get(fd, k)) THEN Get(fd, k).s ELSE <<>>

\* the six recognized values of a field map under their standard keys, in
\* the fixed order; <<>> where the field is absent
StandardTexts(fd) ==
    <<NameText(fd), TextOf(fd, kEmail), TextOf(fd, kPhone), TextOf(fd, kService),
      TextOf(fd, kMessage), TextOf(fd, kWebsiteUrl)>>

\* lines of text are the header followed by one Label: value line for each
\* non-empty entry of texts, in the fixed order
RendersInFixedOrder(text, texts) ==
    LET lines == TextLines(text)
        there == {i \in 1..6 : texts[i] # <<>>}
        Rank(i) == Cardinality({j \in there : j <= i})
    IN /\ Len(lines) >= 1 + Cardinality(there)
       /\ lines[1] = HeaderLine
       /\ \A i \in there : lines[1 + Rank(i)] = FixedOrder[i] \o <<":", " ">> \o texts[i]

\* C11: the rendered text starts with the header line, and the lines of the
\* recognized fields that are present follow it in the order name, email,
\* phone, service, message, websiteUrl, whatever the key order of the map.
C11_FixedOrder ==
    fmtDone => RendersInFixedOrder(fmtOut, StandardTexts(fmtIn))

C11_Witness ==
    /\ fmtDone
    /\ fmtIn = Obj(<<M(kMessage, Str(<<"B">>)), M(kPhone, Str(<<"0", "7">>)),
                     M(kName, Str(<<"A">>))>>)
    /\ TextLines(fmtOut) = <<HeaderLine, <<"N", "a", "m", "e", ":", " ", "A">>,
                             <<"P", "h", "o", "n", "e", ":", " ", "0", "7">>,
                             <<"M", "e", "s", "s", "a", "g", "e", ":", " ", "B">>>>

kType    == <<"t", "y", "p", "e">>
kDetails == <<"d", "e", "t", "a", "i", "l", "s">>

FirstPresent(fd, keys) ==
    LET there == SelectSeq(keys, LAMBDA k : Present(Get(fd, k)))
    IN IF there = <<>> THEN <<>> ELSE Get(fd, there[1]).s

\* the six recognized values of a field map with the documented alternative
\* keys accepted in place of the standard ones
AliasTexts(fd) ==
    <<NameText(fd), TextOf(fd, kEmail), TextOf(fd, kPhone),
      FirstPresent(fd, <<kService, kField, kType>>),
      FirstPresent(fd, <<kMessage, kComment, kDetails>>),
      FirstPresent(fd, <<kWebsiteUrl, kWebsite, kSiteUrl>>)>>

\* C12: a field map that carries an alias key (field or type for service,
\* comment or details for message, website or siteUrl for websiteUrl,
\* firstName and lastName for name) is rendered with the label and at the
\* position the standard key would have.
C12_AliasRecognition ==
    fmtDone => RendersInFixedOrder(fmtOut, AliasTexts(fmtIn))

----------------------------------------------------------------------------
(* Properties of the SMS channels *)

\* positions of the handler after the mapped-client channel has been decided
AfterMapped == {"sms1Wait", "sms1b", "sms1bWait", "sms2", "sms2Wait", "respond", "done"}

\* the origin key of a field map: the first present of websiteUrl, website, siteUrl
OriginKey(fd) == FirstPresent(fd, <<kWebsiteUrl, kWebsite, kSiteUrl>>)

SendsOf(ch) == SelectSeq(sends, LAMBDA x : x.channel = ch)
CallsOf(ch) == SelectSeq(calls, LAMBDA x : x.channel = ch)

NoDelivery(ch) == SendsOf(ch) = <<>> /\ CallsOf(ch) = <<>> /\ outcome[ch] = "skipped"

\* C13: the origin key is the first present of websiteUrl, website, siteUrl;
\* with no origin the mapped channel is skipped without a table lookup or a
\* delivery call, with an origin that has no entry it is skipped without a
\* delivery call; businessSmsSent is then not true, and the chat and fixed
\* channels are attempted all the same.
C13_OriginResolution ==
    (ValidSubmission /\ pc \in AfterMapped) =>
        /\ OriginKey(formData) = <<>> => lookups = <<>> /\ NoDelivery("mapped")
        /\ OriginKey(formData) # <<>> =>
              /\ Len(lookups) = 1
              /\ lookups[1].key = Str(OriginKey(formData))
              /\ lookups[1].result = Null => NoDelivery("mapped")
        /\ (pc = "done" /\ outcome["mapped"] = "skipped") =>
              /\ response.statusCode = 200
              /\ Get(response.body, <<"businessSmsSent">>) # True
              /\ {"slack", "fixed"} \subseteq attempted
              /\ Len(SendsOf("fixed")) = 1

C13_Witness ==
    /\ ValidSubmission /\ pc = "done"
    /\ formData = Obj(<<M(kSiteUrl, Str(<<"z">>))>>)
    /\ Len(lookups) = 1 /\ lookups[1].result = Null
    /\ outcome["mapped"] = "skipped" /\ outcome["fixed"] = "sent"
    /\ Get(response.body, <<"businessSmsSent">>) = False

\* the account credentials and a sender are there, so sendTwilioSMS goes on
\* to the delivery call
TwilioReady(sender) ==
    env.accountSid /\ env.authToken /\ Present(sender)

\* sendTwilioSMS was invoked once for ch with this body, recipient and sender
\* override, and it issued the one delivery call those arguments give: none
\* when Twilio is not configured, else one from sender to recipient
OneAttempt(ch, body, recipient, override, sender) ==
    /\ SendsOf(ch) = <<[channel |-> ch, message |-> body, to |-> recipient,
                        fromPhoneOverride |-> override]>>
    /\ IF TwilioReady(sender)
       THEN /\ Len(CallsOf(ch)) = 1
            /\ CallsOf(ch)[1].message = body
            /\ CallsOf(ch)[1].to = recipient.s
            /\ CallsOf(ch)[1].from = sender.s
       ELSE CallsOf(ch) = <<>>

\* C14: when the origin key has a mapping entry, one delivery is attempted on
\* the mapped channel: its body is the rendered form message, its recipient
\* the entry's destination number as it is if that starts with + and
\* formatPhoneNumber of it otherwise, its sender the entry's override if
\* there is one and the default sender if not.
C14_MappedRecipientAndSender ==
    (/\ ValidSubmission /\ pc \in AfterMapped
     /\ lookups # <<>> /\ lookups[1].result # Null) =>
        LET destination == Get(lookups[1].result, <<"clientNumber">>)
            override    == Get(lookups[1].result, <<"twilioNumber">>)
            recipient   == IF destination.s[1] = "+" THEN destination
                           ELSE formatPhoneNumber(destination)
            sender      == IF Present(override) THEN override ELSE env.fromPhone
        IN OneAttempt("mapped", formMessage, recipient, override, sender)

C14_Witness ==
    /\ ValidSubmission /\ pc = "done"
    /\ Len(CallsOf("mapped")) = 1
    /\ CallsOf("mapped")[1].to = <<"+", "9">>
    /\ CallsOf("mapped")[1].from = <<"+", "8">>
    /\ env.fromPhone = DefaultSender

OperatorNumber == Str(<<"+", "4", "4", "7", "8", "6", "2", "1", "3", "9", "9", "5", "9">>)

AfterFixed == {"sms1bWait", "sms2", "sms2Wait", "respond", "done"}

\* C15: for every valid submission one delivery is attempted to the
\* hardcoded operator number, with the rendered form message and the default
\* sender, whatever the mapped channel did.
C15_FixedSecondary ==
    (ValidSubmission /\ pc \in AfterFixed) =>
        OneAttempt("fixed", formMessage, OperatorNumber, Null, env.fromPhone)

C15_Witness ==
    /\ ValidSubmission /\ pc = "done"
    /\ outcome["mapped"] = "failed"
    /\ Len(CallsOf("mapped")) = 1 /\ CallsOf("mapped")[1].from = <<"+", "8">>
    /\ Len(CallsOf("fixed")) = 1
    /\ CallsOf("fixed")[1].to = OperatorNumber.s
    /\ CallsOf("fixed")[1].from = <<"+", "1">>
    /\ CallsOf("fixed")[1].message = CallsOf("mapped")[1].message

ConfirmationText == <<"Thanks for your message!">>

\* C16: with no phone the customer channel is skipped without a delivery
\* call; with a phone one delivery is attempted to formatPhoneNumber(phone)
\* with the default sender and the fixed confirmation text as body.
C16_CustomerConfirmation ==
    (ValidSubmissionNoHeader /\ pc \in {"respond", "done"}) =>
        IF ~PhonePresent(formData) THEN NoDelivery("customer")
        ELSE OneAttempt("customer", ConfirmationText,
                        formatPhoneNumber(Get(formData, kPhone)), Null, env.fromPhone)

----------------------------------------------------------------------------
(* Properties of the mapping lookup *)

\* a field without the white space around it (fields have none inside)
Stripped(f) == SelectSeq(f, LAMBDA c : c \notin {" ", "\t", "\r"})

BlankLine(line) == Len(line) = 1 /\ Stripped(line[1]) = <<>>

\* the lines after the header: the non-blank lines but the first
DataLines(lines) ==
    LET nonBlank == SelectSeq(lines, LAMBDA l : ~BlankLine(l))
    IN IF nonBlank = <<>> THEN <<>> ELSE Tail(nonBlank)

Retained(line) ==
    Len(line) >= 3 /\ Stripped(line[1]) # <<>> /\ Stripped(line[2]) # <<>>

----------------------------------------------------------------------------
(* Properties of the mapping lookup as the handler uses it *)

\* a URL without its https:// prefix
WithoutScheme(url) == IF url # <<>> /\ url[1] = "https://" THEN Tail(url) ELSE url

\* C18: the handler normalizes website URLs: a submission's websiteUrl finds
\* the mapping row whose URL is the same up to the https:// prefix.
C18_UrlNormalization ==
    (ValidSubmission /\ lookups # <<>> /\ lookups[1].file.readable) =>
        LET rows == MappingRows(lookups[1].file.content)
        IN (\E i \in 1..Len(rows) :
               WithoutScheme(rows[i].websiteUrl) = WithoutScheme(lookups[1].key.s))
           => lookups[1].result # Null

\* C19: when the mapping file cannot be read the loader returns the empty
\* mapping instead of raising; the lookup finds no entry, the mapped channel
\* is skipped, the other three channels run and the response is 200.
C19_LoaderFailsOpen ==
    (/\ ValidSubmission /\ pc \in AfterMapped
     /\ lookups # <<>> /\ ~lookups[1].file.readable) =>
        /\ loadWebsiteNumberMap(lookups[1].file) = <<>>
        /\ lookups[1].result = Null
        /\ NoDelivery("mapped")
        /\ pc = "done" =>
              /\ response.statusCode = 200
              /\ {"slack", "fixed"} \subseteq attempted
              /\ \A ch \in Channels : outcome[ch] \in FinalOutcomes

C19_Witness ==
    /\ ValidSubmission /\ pc = "done"
    /\ lookups # <<>> /\ lookups[1].file = [readable |-> FALSE, content |-> MainTable]
    /\ lookups[1].key = Str(<<"x">>)
    /\ outcome = [slack |-> "sent", mapped |-> "skipped", fixed |-> "sent",
                  customer |-> "sent"]
    /\ response.statusCode = 200

----------------------------------------------------------------------------
(* Properties of the dispatch *)

\* a POST that is accepted and whose rendering raises outside every channel
UncontainedError ==
    /\ request.httpMethod = "POST" /\ NoHookSecret(request)
    /\ request.body.form = "json"
    /\ ~EmptyPayload(ExpectedFieldMap(request.body.value))
    /\ ~Renderable(ExpectedFieldMap(request.body.value))

\* C20: the status of every response is 200, 400, 405 or 500; OPTIONS gets
\* 200 with an empty body and the CORS headers; a method other than GET,
\* POST, OPTIONS gets 405 with error and allowedMethods; an error not
\* contained by body parsing or a channel gets 500 with error, message and
\* timestamp, and nothing else gets 500.
C20_DispatchTotality ==
    pc = "done" =>
        /\ response.statusCode \in {200, 400, 405, 500}
        /\ request.httpMethod = "OPTIONS" =>
              /\ response.statusCode = 200
              /\ response.body = Str(<<>>)
              /\ response.headers = CorsHeaders
        /\ request.httpMethod \notin {"GET", "POST", "OPTIONS"} =>
              /\ response.statusCode = 405
              /\ HasKey(response.body, <<"error">>)
              /\ HasKey(response.body, <<"allowedMethods">>)
        /\ UncontainedError =>
              /\ response.statusCode = 500
              /\ HasKey(response.body, <<"error">>)
              /\ HasKey(response.body, kMessage)
              /\ HasKey(response.body, <<"timestamp">>)
        /\ response.statusCode = 500 => UncontainedError

C20_Witness ==
    /\ pc = "done" /\ UncontainedError
    /\ response.statusCode = 500
    /\ outcome["slack"] = "failed" /\ calls = <<>>

----------------------------------------------------------------------------
(* Properties of the Message Formatter: the remaining fields *)

StandardKeys ==
    {kName, kFirstName, kLastName, kEmail, kPhone, kService, kMessage, kWebsiteUrl}

\* the keys of a field map that are neither standard nor reserved, in the
\* map's own order
RemainingKeys(fd) ==
    SelectSeq([i \in 1..Len(fd.o) |-> fd.o[i].k],
              LAMBDA k : k \notin StandardKeys /\ k[1] # "_")

FirstUpper(key) == <<UpperCase(key[1])>> \o Tail(key)

\* C21: after the header and the recognized lines the text has exactly one
\* line Key: value, with the first character of the key in upper case, for
\* each remaining key of the map in the map's order; a key that begins with _
\* gives no line and its value appears nowhere in the text.
C21_RemainingFields ==
    fmtDone =>
        LET lines     == TextLines(fmtOut)
            texts     == StandardTexts(fmtIn)
            known     == Cardinality({i \in 1..6 : texts[i] # <<>>})
            remaining == RemainingKeys(fmtIn)
        IN /\ Len(lines) = 1 + known + Len(remaining)
           /\ \A i \in 1..Len(remaining) :
                 lines[1 + known + i] =
                     FirstUpper(remaining[i]) \o <<":", " ">> \o Get(fmtIn, remaining[i]).s
           /\ \A i \in 1..Len(fmtIn.o) :
                 fmtIn.o[i].k[1] = "_" =>
                     \A j \in 1..Len(fmtOut) : <<fmtOut[j]>> # fmtIn.o[i].v.s

C21_Witness ==
    /\ fmtDone
    /\ fmtIn = Obj(<<M(kCity, Str(<<"C">>)), M(<<"_", "g">>, Str(<<"D">>)),
                     M(kField, Str(<<"T">>))>>)
    /\ TextLines(fmtOut) = <<HeaderLine, <<"C", "i", "t", "y", ":", " ", "C">>,
                             <<"F", "i", "e", "l", "d", ":", " ", "T">>>>

----------------------------------------------------------------------------
(* Properties of the mapping file over time *)

\* what the file holds for a URL: the files are MainTable (x -> 07 with no
\* sender, y -> +9 with sender +8), the same with x -> +6, a header alone,
\* and a file that cannot be read
EntryIn(f, url) ==
    IF f = [readable |-> TRUE, content |-> MainTable] /\ url = <<"x">>
    THEN Obj(<< M(<<"clientNumber">>, Str(<<"0", "7">>)), M(<<"twilioNumber">>, Null) >>)
    ELSE IF f = [readable |-> TRUE, content |-> ChangedTable] /\ url = <<"x">>
    THEN Obj(<< M(<<"clientNumber">>, Str(<<"+", "6">>)), M(<<"twilioNumber">>, Null) >>)
    ELSE IF f.readable /\ f.content \in {MainTable, ChangedTable} /\ url = <<"y">>
    THEN Obj(<< M(<<"clientNumber">>, Str(<<"+", "9">>)),
                M(<<"twilioNumber">>, Str(<<"+", "8">>)) >>)
    ELSE Null

\* C22: every lookup gives what the mapping file holds at the moment of that
\* lookup, whatever the file held at earlier lookups.
C22_NoCaching ==
    [][lookups' # lookups =>
          LET new == lookups'[Len(lookups')]
          IN /\ lookups' = Append(lookups, new)
             /\ new.file = file
             /\ new.result = EntryIn(file, new.key.s)]_vars

\* a row found by one request is gone for the next one, and a row of the new
\* content is found
C22_Witness ==
    /\ Len(lookups) = 2
    /\ lookups[1].key = Str(<<"x">>) /\ lookups[2].key = Str(<<"x">>)
    /\ lookups[1].file = [readable |-> TRUE, content |-> MainTable]
    /\ Get(lookups[1].result, <<"clientNumber">>) = Str(<<"0", "7">>)
    /\ lookups[2].file = [readable |-> TRUE, content |-> ChangedTable]
    /\ Get(lookups[2].result, <<"clientNumber">>) = Str(<<"+", "6">>)

----------------------------------------------------------------------------
(* Properties of the handler's progress *)

Awaiting == {"slackWait"} \cup WaitPcs

AwaitedChannel(p) == IF p = "slackWait" THEN "slack" ELSE WaitChannel(p)

AwaitedResult(p) == IF p = "slackWait" THEN "slackResult" ELSE ResultField(p)

\* a step taken while a delivery is awaited leaves the request's other state
WaitKeepsState ==
    pc \in Awaiting =>
        /\ formData' = formData
        /\ formMessage' = formMessage
        /\ request' = request
        /\ \A ch \in Channels \ {AwaitedChannel(pc)} : outcome'[ch] = outcome[ch]
        /\ \A f \in DOMAIN results \ {AwaitedResult(pc)} : results'[f] = results[f]
        /\ pc' \in {pc, IF pc = "slackWait" THEN "sms1" ELSE AfterWait(pc)}

\* C23: when every delivery call returns or throws, every POST request gets
\* its response; while the handler waits for a delivery, and when that
\* delivery settles, the field map, the rendered message and what is recorded
\* for the other channels stay as they are.
C23_EventualResponse ==
    /\ (pc = "handler" /\ request.httpMethod = "POST")
           ~> (pc = "done" /\ response # NoResponse)
    /\ [][WaitKeepsState]_vars

\* a POST answered after all four deliveries were awaited, one of them failing
C23_Witness ==
    /\ pc = "done" /\ request.httpMethod = "POST"
    /\ response.statusCode = 200
    /\ Len(calls) = 4
    /\ outcome["slack"] = "sent" /\ outcome["mapped"] = "failed"
    /\ outcome["fixed"] = "sent" /\ outcome["customer"] = "sent"

----------------------------------------------------------------------------
(* Properties of the timing of the SMS deliveries *)

SmsChannels == {"mapped", "fixed", "customer"}

PendingSms == {i \in 1..Len(calls) : /\ calls[i].channel \in SmsChannels
                                      /\ calls[i].status = "pending"}

\* C24: the SMS messages are sent in parallel and the response does not wait
\* for them: while a delivery to the business (mapped or fixed) is pending
\* the confirmation to the customer has been started already, and the handler
\* is never suspended on an SMS delivery that is still pending.
C24_SmsInParallel ==
    /\ \A i \in PendingSms :
           calls[i].channel \in {"mapped", "fixed"} => outcome["customer"] # "none"
    /\ PendingSms # {} => pc \notin WaitPcs

----------------------------------------------------------------------------
(* Properties of the log buffer *)

\* C25: an append puts the new entry in front of the stored entries and
\* leaves them all in place, in their order, however many are stored.
C25_AppendKeepsEntries ==
    [][logCount' # logCount => logStorage' = <<logCount'>> \o logStorage]_vars

----------------------------------------------------------------------------
(* Properties of the recipients handed to sendTwilioSMS *)

SenderOf(send) ==
    IF Present(send.fromPhoneOverride) THEN send.fromPhoneOverride ELSE env.fromPhone

\* C26: every recipient the handler hands to sendTwilioSMS is a string that
\* begins with +, so with Twilio configured every invocation issues its
\* delivery call: the invalid-format return is never taken.
C26_RecipientsStartWithPlus ==
    \A i \in 1..Len(sends) :
        /\ sends[i].to.t = "string"
        /\ sends[i].to.s # <<>>
        /\ sends[i].to.s[1] = "+"
        /\ TwilioReady(SenderOf(sends[i])) =>
              /\ Len(CallsOf(sends[i].channel)) = 1
              /\ outcome[sends[i].channel] # "skipped"

\* the table gives 07, sent to +447; the submission gives +447, sent as it is
C26_Witness ==
    /\ pc = "done"
    /\ Len(lookups) = 1
    /\ Get(lookups[1].result, <<"clientNumber">>) = Str(<<"0", "7">>)
    /\ Get(formData, kPhone) = Str(<<"+", "4", "4", "7">>)
    /\ Len(sends) = 3
    /\ sends[1].to = Str(<<"+", "4", "4", "7">>)
    /\ sends[3].to = Str(<<"+", "4", "4", "7">>)
    /\ Len(calls) = 3

----------------------------------------------------------------------------
(* Properties of the number of delivery calls *)

\* C27: within one request each channel issues at most one delivery call, so
\* at most one chat call and three SMS calls; a call that was rejected is the
\* only call of its channel, and a channel whose delivery failed issues no
\* further call.
AtMostOneCall ==
    /\ \A ch \in Channels :
          /\ Len(CallsOf(ch)) <= 1
          /\ Len(SendsOf(ch)) <= 1
          /\ outcome[ch] = "failed" =>
                \A i \in 1..Len(calls) : calls[i].channel = ch => calls[i].status = "rejected"
    /\ Len(calls) <= 4

NoCallAfterFailure ==
    \A ch \in Channels :
        (outcome[ch] = "failed" /\ pc # "done") => Len(CallsOf(ch))' = Len(CallsOf(ch))

C27_NoRetry == []AtMostOneCall /\ [][NoCallAfterFailure]_vars

\* all four deliveries were rejected and each was called once
C27_Witness ==
    /\ pc = "done" /\ response.statusCode = 200
    /\ Len(calls) = 4
    /\ \A i \in 1..4 : calls[i].status = "rejected"
    /\ \A ch \in Channels : outcome[ch] = "failed" /\ Len(CallsOf(ch)) = 1

====
